---- MODULE Spec2Model ----
(***************************************************************************)
(* The evaluation layer of the cruise chatbot: RuleBasedEvaluator          *)
(* (evaluation/rules.py), LLMEvaluator (evaluation/metrics.py),            *)
(* EvaluationEngine (evaluation/engine.py) and FeedbackManager             *)
(* (evaluation/feedback.py).                                               *)
(*                                                                         *)
(* Numbers.  Scores are Python floats with at most two decimals; the model *)
(* keeps them as integers in hundredths (0.85 is 85).  Products with the   *)
(* one-decimal weights are kept in thousandths.  Prices are integers.      *)
(*                                                                         *)
(* Texts.  A text is a sequence of tokens (records with a field tok), so   *)
(* that the regular expressions and json.loads are modelled by what they   *)
(* do to a text and not as the identity.                                   *)
(*                                                                         *)
(* Python dicts are functions from key strings to values; a key that is    *)
(* absent from the dict is absent from the DOMAIN.                         *)
(***************************************************************************)
EXTENDS Integers, Sequences, FiniteSets, TLC

VARIABLES
    dirExists,   \* os.path.exists(log_dir)
    fileExists,  \* os.path.exists(log_path)
    log,         \* the lines of eval_history.jsonl, oldest first
    constructed, \* a FeedbackManager (EvaluationEngine.feedback) exists
    completed,   \* number of log_event calls that returned
    last,        \* the last operation: its inputs and what it returned or raised
    tail,        \* what eval_history.jsonl holds after its last newline
    writers,     \* the log_event call each concurrent caller is in
    evalCall     \* the evaluate call in progress, statement by statement

vars == <<dirExists, fileExists, log, constructed, completed, last, tail, writers, evalCall>>

----------------------------------------------------------------------------
(* Bounds of the model                                                     *)

\* longest log the evaluate action grows
MaxLog == 2
\* longest log the direct log_event action grows
MaxReportLog == 10
\* length up to which the direct log_event action logs every event of
\* DemoEvents; beyond it, those of SteadyEvents
MaxVaried == 3
\* most lines at the thresholds, unflagged and flagged, of a log the
\* reporter is started on
MaxAtThreshold == 9
MaxAtThresholdFlagged == 2

----------------------------------------------------------------------------
(* Generic helpers                                                         *)

Get(d, k, default) == IF k \in DOMAIN d THEN d[k] ELSE default

Has(d, k) == k \in DOMAIN d

\* d[k] = v of a Python dict: the key is added or overwritten
Put(d, k, v) == [x \in (DOMAIN d) \cup {k} |-> IF x = k THEN v ELSE d[x]]

Max(a, b) == IF a >= b THEN a ELSE b

\* n / unit rounded to the nearest integer, ties to the even neighbour
\* (Python's round and format on a value that is exactly representable)
RoundDiv(n, unit) ==
    LET q == n \div unit
        r == n % unit
    IN  IF 2 * r < unit THEN q
        ELSE IF 2 * r > unit THEN q + 1
        ELSE IF q % 2 = 0 THEN q ELSE q + 1

IsPrefix(s, t) == Len(s) <= Len(t) /\ SubSeq(t, 1, Len(s)) = s

RECURSIVE SumSeq(_)
SumSeq(s) == IF s = <<>> THEN 0 ELSE s[1] + SumSeq(Tail(s))

\* sorted(list(set(...))) of a set of integers
RECURSIVE SortedSeq(_)
SortedSeq(S) ==
    IF S = {} THEN <<>>
    ELSE LET m == CHOOSE x \in S : \A y \in S : x <= y
         IN  <<m>> \o SortedSeq(S \ {m})

----------------------------------------------------------------------------
(* evaluation/rules.py : RuleBasedEvaluator                                *)
(*                                                                         *)
(* Response tokens:                                                        *)
(*   [tok |-> "word"]                        text no pattern matches       *)
(*   [tok |-> "id", upper |-> b, digits |-> d]   the letters CRZ in upper  *)
(*                                           case (b) or not, and 3 digits *)
(*   [tok |-> "price", shape |-> s, v |-> n] the number n written after a  *)
(*                                           "$" (s = "dollar") or before  *)
(*                                           "USD"/"dollars" (s = "usd")   *)
(* An identifier string is [upper |-> b, digits |-> d].                    *)

\* the catalog (the ground-truth CSV): the cruise_id column as it is
\* written, and the lowest and highest price_usd
CatalogIds == {[upper |-> TRUE, digits |-> "001"], [upper |-> FALSE, digits |-> "002"]}
CatalogMinPrice == 500
CatalogMaxPrice == 1000

\* str.upper()
Upper(id) == [id EXCEPT !.upper = TRUE]

\* self.valid_cruise_ids = set(self.df['cruise_id'].str.upper().astype(str))
valid_cruise_ids == {Upper(id) : id \in CatalogIds}

\* self.price_min = min * 0.9, self.price_max = max * 1.1, in tenths
price_min10 == CatalogMinPrice * 9
price_max10 == CatalogMaxPrice * 11

Word == [tok |-> "word"]
IdTok(u, d) == [tok |-> "id", upper |-> u, digits |-> d]
PriceTok(n) == [tok |-> "price", shape |-> "dollar", v |-> n]
PriceUsdTok(n) == [tok |-> "price", shape |-> "usd", v |-> n]

\* list(set(xs)): the elements of xs once each, in an order the caller
\* cannot rely on
RECURSIVE ListOfSet(_)
ListOfSet(S) ==
    IF S = {} THEN <<>>
    ELSE LET x == CHOOSE y \in S : TRUE IN <<x>> \o ListOfSet(S \ {x})

Elements(xs) == {xs[i] : i \in 1..Len(xs)}

\* re.findall(r'CRZ\d{3}', text, re.IGNORECASE): the matches as written,
\* in text order
RECURSIVE IdMatches(_)
IdMatches(text) ==
    IF text = <<>> THEN <<>>
    ELSE (IF text[1].tok = "id"
          THEN <<[upper |-> text[1].upper, digits |-> text[1].digits]>>
          ELSE <<>>) \o IdMatches(Tail(text))

\* a checker that compares the match as written, without m.upper()
check_hallucinated_ids_as_written(text) ==
    ListOfSet({m \in Elements(IdMatches(text)) : m \notin valid_cruise_ids})

check_hallucinated_ids(text) ==
    LET matches == IdMatches(text)
        hallucinated == SelectSeq([i \in 1..Len(matches) |-> Upper(matches[i])],
                                  LAMBDA clean_id : clean_id \notin valid_cruise_ids)
    IN  ListOfSet(Elements(hallucinated))

\* the digits the price pattern captures from one price token: \d{3,5}
\* needs 3 digits; of a longer number it takes the first 5 after "$" and
\* the last 5 before "USD"
Captured(token) ==
    IF token.v < 100 THEN <<>>
    ELSE IF token.v <= 99999 THEN <<token.v>>
    ELSE IF token.shape = "dollar" THEN <<token.v \div 10>>
    ELSE <<token.v % 100000>>

\* re.findall(price_pattern, text) and float(price_str), in text order
RECURSIVE PriceMatches(_)
PriceMatches(text) ==
    IF text = <<>> THEN <<>>
    ELSE (IF text[1].tok = "price" THEN Captured(text[1]) ELSE <<>>)
         \o PriceMatches(Tail(text))

\* a checker that also flags a price equal to a bound
check_price_sanity_inclusive(text) ==
    SortedSeq({p \in Elements(PriceMatches(text)) :
                  p * 10 <= price_min10 \/ p * 10 >= price_max10})

check_price_sanity(text) ==
    LET out_of_range_prices ==
            SelectSeq(PriceMatches(text),
                      LAMBDA price : price * 10 < price_min10 \/ price * 10 > price_max10)
    IN  SortedSeq(Elements(out_of_range_prices))

IdFlag(ids) == [flag |-> "HALLUCINATION_RISK", ids |-> ids]
PriceFlag(prices) == [flag |-> "DATA_ERROR", prices |-> prices]

\* an evaluator that runs the price check first
RuleEvaluatePriceFirst(text) ==
    LET fake_ids == check_hallucinated_ids(text)
        bad_prices == check_price_sanity(text)
        flags == (IF bad_prices # <<>> THEN <<PriceFlag(bad_prices)>> ELSE <<>>)
                 \o (IF fake_ids # <<>> THEN <<IdFlag(fake_ids)>> ELSE <<>>)
        score == 100 - (IF fake_ids # <<>> THEN 50 ELSE 0)
                     - (IF bad_prices # <<>> THEN 20 ELSE 0)
    IN  [rule_score |-> Max(0, score), rule_flags |-> flags]

\* RuleBasedEvaluator.evaluate
RuleEvaluate(text) ==
    LET fake_ids == check_hallucinated_ids(text)
        bad_prices == check_price_sanity(text)
        flags == (IF fake_ids # <<>> THEN <<IdFlag(fake_ids)>> ELSE <<>>)
                 \o (IF bad_prices # <<>> THEN <<PriceFlag(bad_prices)>> ELSE <<>>)
        score == 100 - (IF fake_ids # <<>> THEN 50 ELSE 0)
                     - (IF bad_prices # <<>> THEN 20 ELSE 0)
    IN  [rule_score |-> Max(0, score), rule_flags |-> flags]

----------------------------------------------------------------------------
(* evaluation/metrics.py : LLMEvaluator                                    *)
(*                                                                         *)
(* Tokens of the generator's text:                                         *)
(*   [tok |-> "fence_json"]   the characters ```json                       *)
(*   [tok |-> "fence"]        the characters ```                           *)
(*   [tok |-> "ws"]           a run of whitespace                          *)
(*   [tok |-> "prose"]        characters that are no JSON value            *)
(*   [tok |-> "json", kind |-> k, ...]   the text of one JSON value:       *)
(*        kind "object" with val, the dict json.loads builds from it;      *)
(*        kind "string" with has_error (the string contains "error");      *)
(*        kind "number", "array" (no element "error") or "null".           *)
(* A value json.loads returns is the json token it was built from.         *)

Fence == [tok |-> "fence"]
FenceJson == [tok |-> "fence_json"]
Ws == [tok |-> "ws"]
Prose == [tok |-> "prose"]
JObject(d) == [tok |-> "json", kind |-> "object", val |-> d]
JString(e) == [tok |-> "json", kind |-> "string", has_error |-> e]
JNumber == [tok |-> "json", kind |-> "number"]
JArray == [tok |-> "json", kind |-> "array"]

RECURSIVE DropWs(_)
DropWs(t) == IF t # <<>> /\ t[1].tok = "ws" THEN DropWs(Tail(t)) ELSE t

\* re.sub(r'```json\s*|\s*```', '', text), scanning left to right: at a
\* position the first alternative is tried before the second, so a
\* whitespace run before ```json is consumed with the three backquotes by
\* the second alternative and the letters "json" stay in the text
RECURSIVE StripFences(_)
StripFences(t) ==
    IF t = <<>> THEN <<>>
    ELSE IF t[1].tok = "fence_json" THEN StripFences(DropWs(Tail(t)))
    ELSE IF t[1].tok = "fence" THEN StripFences(Tail(t))
    ELSE IF t[1].tok = "ws" /\ DropWs(t) # <<>> /\ DropWs(t)[1].tok = "fence"
         THEN StripFences(Tail(DropWs(t)))
    ELSE IF t[1].tok = "ws" /\ DropWs(t) # <<>> /\ DropWs(t)[1].tok = "fence_json"
         THEN <<Prose>> \o StripFences(Tail(DropWs(t)))
    ELSE <<t[1]>> \o StripFences(Tail(t))

RECURSIVE DropWsEnd(_)
DropWsEnd(t) ==
    IF t # <<>> /\ t[Len(t)].tok = "ws" THEN DropWsEnd(SubSeq(t, 1, Len(t) - 1)) ELSE t

\* str.strip()
Strip(t) == DropWsEnd(DropWs(t))

\* json.loads: the whole text must be one JSON value
Loads(t) ==
    IF Len(t) = 1 /\ t[1].tok = "json"
    THEN [ok |-> TRUE, val |-> t[1]]
    ELSE [ok |-> FALSE, exc |-> "JSONDecodeError"]

DegradedVerdict(text) ==
    [error |-> "Failed to parse LLM evaluation",
     raw_output |-> text,
     relevance_score |-> 0,
     consistency_score |-> 0]

\* LLMEvaluator._parse_json_output
ParseJsonOutput(text) ==
    LET clean_text == Strip(StripFences(text))
        parsed == Loads(clean_text)
    IN  IF parsed.ok THEN parsed.val ELSE JObject(DegradedVerdict(text))

\* the weighted sum of compute_metrics in thousandths
WeightedOverall(scores) ==
      Get(scores, "relevance_score", 0) * 3
    + Get(scores, "consistency_score", 0) * 4
    + Get(scores, "completeness_score", 0) * 2
    + Get(scores, "clarity_score", 0) * 1

Returned(v) == [ok |-> TRUE, val |-> v]
Raised(e) == [ok |-> FALSE, exc |-> e]

\* LLMEvaluator.compute_metrics.  llm is what self.llm_func does when called:
\* [raises |-> TRUE] or [raises |-> FALSE, text |-> its return value].
\* The result is Returned(value) or Raised(exception).
ComputeMetrics(llm) ==
    IF llm.raises THEN Raised("GeneratorError")
    ELSE LET scores == ParseJsonOutput(llm.text)
         IN  CASE scores.kind = "object" ->
                    IF ~Has(scores.val, "error")
                    THEN Returned(JObject(Put(scores.val, "overall_quality",
                                    RoundDiv(WeightedOverall(scores.val), 10))))
                    ELSE Returned(scores)
                \* "error" not in <list> is True, then list has no .get
                [] scores.kind = "array" -> Raised("AttributeError")
                \* "error" not in <str> is a substring test
                [] scores.kind = "string" ->
                    IF scores.has_error THEN Returned(scores)
                    ELSE Raised("AttributeError")
                \* "error" not in <int> / None
                [] OTHER -> Raised("TypeError")

----------------------------------------------------------------------------
(* evaluation/feedback.py : FeedbackManager                                *)
(*                                                                         *)
(* A line of the log is [json |-> event]: json.dumps(event) + "\n", which  *)
(* holds no raw newline; json.loads of the line gives the event back.  The *)
(* timestamp, the query and the response preview of an event are read by   *)
(* no operation and are left out.                                          *)

Dumps(event) == [json |-> event]
LoadsLine(line) == line.json

\* a line that is not the output of one json.dumps: the pieces that
\* separate writes left between two newlines
Torn(pieces) == [torn |-> pieces]

\* json.loads(line) returns
IsRecord(line) == "json" \in DOMAIN line

\* the event log_event builds from its arguments
Event(metrics, rule_results) == [metrics |-> metrics, rules |-> rule_results]

\* a store that opens the log with mode "w"
AppendLineTruncating(lines, event) == <<Dumps(event)>>

\* a store that writes the new line at the head of the file
AppendLineAtHead(lines, event) == <<Dumps(event)>> \o lines

\* with open(self.log_path, "a") as f: f.write(json.dumps(event) + "\n")
AppendLine(lines, event) == Append(lines, Dumps(event))

\* a reporter that keeps the lines with an error in the means
LlmScoresOfAll(lines, key) ==
    [i \in 1..Len(lines) |-> Get(LoadsLine(lines[i]).metrics, key, 0)]

LlmScoresOf(lines, key) ==
    LET kept == SelectSeq(lines, LAMBDA l : ~Has(LoadsLine(l).metrics, "error"))
    IN  [i \in 1..Len(kept) |-> Get(LoadsLine(kept[i]).metrics, key, 0)]

\* statistics.mean(xs) if xs else 0, as the fraction num / den of hundredths
MeanOrZero(xs) ==
    IF Len(xs) > 0 THEN [num |-> SumSeq(xs), den |-> Len(xs)]
    ELSE [num |-> 0, den |-> 1]

\* data["rules"].get("rule_flags") is truthy
HasRuleFlags(line) == Get(LoadsLine(line).rules, "rule_flags", <<>>) # <<>>

HallucinationCount(lines) == Len(SelectSeq(lines, HasRuleFlags))

\* f"{x * 100:.1f}%" for x = count / total
FormatRate(count, total) ==
    LET tenths == RoundDiv(count * 1000, total)
    IN  ToString(tenths \div 10) \o "." \o ToString(tenths % 10) \o "%"

\* a reporter whose thresholds are not strict
MeanAtOrBelow(avg, threshold) == avg.num <= threshold * avg.den

\* avg < threshold, threshold in hundredths
MeanBelow(avg, threshold) == avg.num < threshold * avg.den

RelevanceSignal == "CRITICAL: Relevance is low. Review 'Retrieval' logic (RAG) or Vector DB embeddings."
ConsistencySignal == "WARNING: Consistency is low. Stricter System Prompt constraints needed regarding 'Context Usage'."
ClaritySignal == "ADVICE: Responses are unclear. Tweak the 'Synthesizer' prompt for better formatting."
HallucinationSignal == "URGENT: High Hallucination Rate (>10%). Review Ground Truth validation rules."

Signals(avg_relevance, avg_consistency, avg_clarity, count, total) ==
       (IF MeanBelow(avg_relevance, 70) THEN <<RelevanceSignal>> ELSE <<>>)
    \o (IF MeanBelow(avg_consistency, 80) THEN <<ConsistencySignal>> ELSE <<>>)
    \o (IF MeanBelow(avg_clarity, 60) THEN <<ClaritySignal>> ELSE <<>>)
    \o (IF count * 10 > total THEN <<HallucinationSignal>> ELSE <<>>)

Sentinel(text) == [kind |-> "sentinel", text |-> text]

\* FeedbackManager.generate_report on the file as it is
GenerateReportOf(exists, lines) ==
    IF ~exists THEN Sentinel("No logs found.")
    ELSE LET total_events == Len(lines)
             hallucination_count == HallucinationCount(lines)
             avg_relevance == MeanOrZero(LlmScoresOf(lines, "relevance_score"))
             avg_consistency == MeanOrZero(LlmScoresOf(lines, "consistency_score"))
             avg_clarity == MeanOrZero(LlmScoresOf(lines, "clarity_score"))
         IN  IF total_events = 0 THEN Sentinel("Log file is empty.")
             ELSE [kind |-> "summary",
                   total_queries |-> total_events,
                   avg_relevance |-> avg_relevance,
                   avg_consistency |-> avg_consistency,
                   avg_clarity |-> avg_clarity,
                   hallucination_rate |-> FormatRate(hallucination_count, total_events),
                   tuning_recommendations |->
                       Signals(avg_relevance, avg_consistency, avg_clarity,
                               hallucination_count, total_events)]

----------------------------------------------------------------------------
(* evaluation/engine.py : EvaluationEngine                                 *)

LlmFlag == [flag |-> "LLM_FLAG: Potential Hallucination detected by Model"]

\* the hallucination risk evaluate reads from the Judge's verdict
HallucinationRisk(metric_result) == Get(metric_result, "hallucination_risk", "LOW")

\* a coordinator that puts the LLM flag first
ConsolidateFlagsAtHead(rule_flags, metric_result) ==
    IF Get(metric_result, "hallucination_risk", "LOW") = "HIGH"
    THEN <<[flag |-> "LLM_FLAG: Potential Hallucination detected by Model"]>> \o rule_flags
    ELSE rule_flags

\* all_flags = rule_result.get("rule_flags", []) is the list object held by
\* rule_result, so all_flags.append(...) changes rule_result["rule_flags"] too
ConsolidateFlags(rule_flags, metric_result) ==
    IF HallucinationRisk(metric_result) = "HIGH"
    THEN Append(rule_flags, LlmFlag)
    ELSE rule_flags

\* final_score in thousandths
FinalScore(rule_score, llm_score) == rule_score * 4 + llm_score * 6

\* a coordinator that passes a final score of exactly 0.7
StatusOfInclusive(final_score) == IF final_score >= 700 THEN "PASS" ELSE "REVIEW_NEEDED"

StatusOf(final_score) == IF final_score > 700 THEN "PASS" ELSE "REVIEW_NEEDED"

\* EvaluationEngine.evaluate up to the call of log_event: the packet and the
\* arguments log_event is called with, or the exception raised before that.
\* query and latency_ms are left out of the packet.
EvaluateCore(response, llm) ==
    LET rule_result == RuleEvaluate(response)
        metrics == ComputeMetrics(llm)
    IN  IF ~metrics.ok THEN Raised(metrics.exc)
        \* metric_result.get on a str
        ELSE IF metrics.val.kind # "object" THEN Raised("AttributeError")
        ELSE LET metric_result == metrics.val.val
                 rule_score == Get(rule_result, "rule_score", 100)
                 llm_score == Get(metric_result, "overall_quality", 0)
                 final_score == FinalScore(rule_score, llm_score)
                 all_flags == ConsolidateFlags(Get(rule_result, "rule_flags", <<>>),
                                               metric_result)
                 packet == [overall_score |-> RoundDiv(final_score, 10),
                            status |-> StatusOf(final_score),
                            scores |-> [rule_adherence |-> rule_score,
                                        llm_quality |-> llm_score,
                                        components |-> metric_result],
                            flags |-> all_flags]
             IN  [ok |-> TRUE,
                  packet |-> packet,
                  metrics |-> metric_result,
                  rule_results |-> [rule_result EXCEPT !.rule_flags = all_flags]]

----------------------------------------------------------------------------
(* Inputs                                                                  *)

\* chatbot responses: a catalog identifier and an in-range price; an
\* out-of-range price; an unknown identifier (lower case) and an
\* out-of-range price
RespClean == <<Word, IdTok(TRUE, "001"), PriceTok(850)>>
RespBadPrice == <<Word, PriceTok(100)>>
RespFakeBoth == <<IdTok(FALSE, "999"), Word, PriceTok(5000), PriceTok(100)>>
Responses == {RespClean, RespBadPrice, RespFakeBoth}

\* objects the generator may write
GoodScores ==
    [relevance_score |-> 90, consistency_score |-> 80,
     completeness_score |-> 85, clarity_score |-> 95]
LowConsistencyScores ==
    [relevance_score |-> 80, consistency_score |-> 50,
     completeness_score |-> 70, clarity_score |-> 60]
HighRiskScores ==
    [relevance_score |-> 100, consistency_score |-> 0,
     completeness_score |-> 80, clarity_score |-> 40,
     hallucination_risk |-> "HIGH"]
OutOfRangeScores == [relevance_score |-> 500]

\* texts the generator may return
LlmTexts ==
    { <<JObject(GoodScores)>>,
      <<FenceJson, Ws, JObject(LowConsistencyScores), Ws, Fence>>,
      <<JObject(HighRiskScores)>>,
      <<JObject(OutOfRangeScores)>>,
      <<Prose>>,
      <<Ws, FenceJson, Ws, JObject(GoodScores), Ws, Fence>>,
      <<JNumber>>,
      <<JString(TRUE)>> }

\* what a call of llm_func does
LlmOutcomes ==
    {[raises |-> TRUE]} \cup {[raises |-> FALSE, text |-> t] : t \in LlmTexts}

\* events logged by direct calls of log_event: the two of feedback.py's
\* demo, and what evaluate logs for an unparsable verdict on a clean response
DemoClean ==
    Event([relevance_score |-> 90, consistency_score |-> 90, clarity_score |-> 100],
          [rule_flags |-> <<>>])
DemoFlagged ==
    Event([relevance_score |-> 40, consistency_score |-> 50, clarity_score |-> 80],
          [rule_flags |-> <<[flag |-> "Bad Price"]>>])
DemoDegraded == Event(DegradedVerdict(<<Prose>>), [rule_flags |-> <<>>])
DemoEvents == {DemoClean, DemoFlagged, DemoDegraded}
\* the events a log longer than MaxVaried goes on with
SteadyEvents == {DemoFlagged, DemoDegraded}

\* events of a log written by earlier runs: every mean exactly at its
\* threshold (unflagged, flagged), and one mean below its threshold
AtThreshold ==
    Event([relevance_score |-> 70, consistency_score |-> 80, clarity_score |-> 60],
          [rule_flags |-> <<>>])
AtThresholdFlagged ==
    Event([relevance_score |-> 70, consistency_score |-> 80, clarity_score |-> 60],
          [rule_flags |-> <<[flag |-> "Bad Price"]>>])
OnlyRelevanceLow ==
    Event([relevance_score |-> 60, consistency_score |-> 80, clarity_score |-> 60],
          [rule_flags |-> <<>>])
OnlyConsistencyLow ==
    Event([relevance_score |-> 70, consistency_score |-> 70, clarity_score |-> 60],
          [rule_flags |-> <<>>])
OnlyClarityLow ==
    Event([relevance_score |-> 70, consistency_score |-> 80, clarity_score |-> 50],
          [rule_flags |-> <<>>])

Repeat(event, n) == [i \in 1..n |-> Dumps(event)]

\* the logs the reporter may be started on
ExistingLogs ==
    { Repeat(AtThreshold, t) \o Repeat(AtThresholdFlagged, f)
        \o Repeat(OnlyRelevanceLow, r) \o Repeat(OnlyConsistencyLow, c)
        \o Repeat(OnlyClarityLow, l) \o Repeat(DemoClean, h) :
        t \in 0..MaxAtThreshold, f \in 0..MaxAtThresholdFlagged,
        r \in 0..1, c \in 0..1, l \in 0..1, h \in 0..1 }

----------------------------------------------------------------------------
(* State machine                                                           *)

\* the concurrent callers of log_event
Writers == {"w1", "w2"}

\* a caller that is in no call
Idle == [pc |-> "idle"]

Init ==
    /\ dirExists = FALSE
    /\ fileExists = FALSE
    /\ log = <<>>
    /\ constructed = FALSE
    /\ completed = 0
    /\ last = [op |-> "none"]
    /\ tail = <<>>
    /\ writers = [w \in Writers |-> Idle]
    /\ evalCall = Idle

\* FeedbackManager.__init__ (also run by EvaluationEngine.__init__)
Construct ==
    /\ dirExists' = TRUE
    /\ constructed' = TRUE
    /\ last' = [op |-> "init"]
    /\ UNCHANGED <<fileExists, log, completed>>
    /\ UNCHANGED <<tail, writers, evalCall>>

\* EvaluationEngine.evaluate(query, response, context).  write_fails: the
\* open of the log for appending raises OSError.
Evaluate(response, llm, write_fails) ==
    /\ constructed
    /\ Len(log) < MaxLog
    /\ LET core == EvaluateCore(response, llm)
           call == [op |-> "evaluate", response |-> response, llm |-> llm,
                    write_fails |-> write_fails]
       IN  IF ~core.ok
           THEN /\ last' = call @@ [outcome |-> "raised", exc |-> core.exc]
                /\ UNCHANGED <<fileExists, log, completed>>
           ELSE IF write_fails
           THEN /\ last' = call @@ [outcome |-> "raised", exc |-> "OSError"]
                /\ UNCHANGED <<fileExists, log, completed>>
           ELSE /\ fileExists' = TRUE
                /\ log' = AppendLine(log, Event(core.metrics, core.rule_results))
                /\ completed' = completed + 1
                /\ last' = call @@ [outcome |-> "returned", packet |-> core.packet]
    /\ UNCHANGED <<dirExists, constructed>>
    /\ UNCHANGED <<tail, writers, evalCall>>

\* FeedbackManager.log_event called directly
LogEvent(event, write_fails) ==
    /\ constructed
    /\ Len(log) < MaxReportLog
    /\ (Len(log) < MaxVaried \/ event \in SteadyEvents)
    /\ IF write_fails
       THEN /\ last' = [op |-> "log_event", outcome |-> "raised", exc |-> "OSError"]
            /\ UNCHANGED <<fileExists, log, completed>>
       ELSE /\ fileExists' = TRUE
            /\ log' = AppendLine(log, event)
            /\ completed' = completed + 1
            /\ last' = [op |-> "log_event", outcome |-> "returned"]
    /\ UNCHANGED <<dirExists, constructed>>
    /\ UNCHANGED <<tail, writers, evalCall>>

\* a reporter that empties the log once it has read it
GenerateReportDraining ==
    /\ constructed
    /\ last' = [op |-> "generate_report", outcome |-> "returned",
                report |-> GenerateReportOf(fileExists, log),
                consecutive |-> IF last.op = "generate_report" THEN 2 ELSE 1]
    /\ log' = <<>>
    /\ UNCHANGED <<dirExists, fileExists, constructed, completed>>
    /\ UNCHANGED <<tail, writers, evalCall>>

\* for line in f: the lines of the file, the text after the last newline
\* being a line too
FileLines == log \o (IF tail = <<>> THEN <<>> ELSE <<Torn(tail)>>)

\* FeedbackManager.generate_report.  consecutive: 2 when the operation before
\* this one was a generate_report too, else 1.  json.loads raises on a line
\* that is not one whole record.
GenerateReport ==
    /\ constructed
    /\ IF fileExists /\ \E i \in 1..Len(FileLines) : ~IsRecord(FileLines[i])
       THEN last' = [op |-> "generate_report", outcome |-> "raised",
                     exc |-> "JSONDecodeError"]
       ELSE last' = [op |-> "generate_report", outcome |-> "returned",
                     report |-> GenerateReportOf(fileExists, FileLines),
                     consecutive |-> IF last.op = "generate_report" THEN 2 ELSE 1]
    /\ UNCHANGED <<dirExists, fileExists, log, constructed, completed>>
    /\ UNCHANGED <<tail, writers, evalCall>>

EvaluateStep ==
    \E response \in Responses, llm \in LlmOutcomes, write_fails \in BOOLEAN :
        Evaluate(response, llm, write_fails)

LogEventStep ==
    \E event \in DemoEvents, write_fails \in BOOLEAN : LogEvent(event, write_fails)

\* the engine in use: construction, evaluations, reports
Next == Construct \/ EvaluateStep \/ GenerateReport

Spec == Init /\ [][Next]_vars

\* the feedback store in use on its own: construction, log_event, reports
NextStore == Construct \/ LogEventStep \/ GenerateReport

SpecStore == Init /\ [][NextStore]_vars

\* Concurrent callers of one store.  log_event holds no lock and hands the
\* line to a buffered file object (feedback.py:36-37): the line reaches the
\* file in one write, or, when it does not fit the buffer, in a first piece
\* and a rest.  Pieces are appended at the end of the file as it is then.
MaxAppends == 3

Piece(part, w) == [part |-> part, writer |-> w]

\* the line that the pieces between two newlines make
LineOf(pieces, event) ==
    IF \E w \in Writers : pieces = <<Piece("whole", w)>> \/ pieces = <<Piece("head", w), Piece("rest", w)>>
    THEN Dumps(event)
    ELSE Torn(pieces)

InFlight == Cardinality({w \in Writers : writers[w] # Idle})

\* log_event up to open(self.log_path, "a"), which creates the file
BeginLogEvent(w, event) ==
    /\ constructed
    /\ writers[w] = Idle
    /\ completed + InFlight < MaxAppends
    /\ writers' = [writers EXCEPT ![w] = [pc |-> "opened", event |-> event]]
    /\ fileExists' = TRUE
    /\ UNCHANGED <<dirExists, log, constructed, completed, last, tail, evalCall>>

\* f.write(json.dumps(event) + "\n") reaching the file in one write
WriteWhole(w) ==
    /\ writers[w].pc = "opened"
    /\ log' = Append(log, LineOf(tail \o <<Piece("whole", w)>>, writers[w].event))
    /\ tail' = <<>>
    /\ writers' = [writers EXCEPT ![w] = Idle]
    /\ completed' = completed + 1
    /\ UNCHANGED <<dirExists, fileExists, constructed, last, evalCall>>

\* the first piece of the line reaching the file
WriteHead(w) ==
    /\ writers[w].pc = "opened"
    /\ tail' = tail \o <<Piece("head", w)>>
    /\ writers' = [writers EXCEPT ![w].pc = "head_written"]
    /\ UNCHANGED <<dirExists, fileExists, log, constructed, completed, last, evalCall>>

\* the rest of the line, with its newline, reaching the file
WriteRest(w) ==
    /\ writers[w].pc = "head_written"
    /\ log' = Append(log, LineOf(tail \o <<Piece("rest", w)>>, writers[w].event))
    /\ tail' = <<>>
    /\ writers' = [writers EXCEPT ![w] = Idle]
    /\ completed' = completed + 1
    /\ UNCHANGED <<dirExists, fileExists, constructed, last, evalCall>>

BeginLogEventStep == \E w \in Writers, event \in SteadyEvents : BeginLogEvent(w, event)

WriteWholeStep == \E w \in Writers : WriteWhole(w)

WriteHeadStep == \E w \in Writers : WriteHead(w)

WriteRestStep == \E w \in Writers : WriteRest(w)

NextConcurrent ==
    \/ Construct
    \/ BeginLogEventStep
    \/ WriteWholeStep
    \/ WriteHeadStep
    \/ WriteRestStep
    \/ GenerateReport

SpecConcurrent == Init /\ [][NextConcurrent]_vars

\* One evaluate call at a time, statement by statement.  rule_calls,
\* llm_calls and appends count what the call has done so far.
MaxStepLog == 2

StepResponses == {RespClean, RespFakeBoth}

StepLlmOutcomes ==
    { [raises |-> TRUE],
      [raises |-> FALSE, text |-> <<JObject(GoodScores)>>],
      [raises |-> FALSE, text |-> <<Prose>>],
      [raises |-> FALSE, text |-> <<JNumber>>] }

\* an exception leaves evaluate
EvaluateRaises(exc) ==
    /\ last' = [op |-> "evaluate", outcome |-> "raised", exc |-> exc]
    /\ evalCall' = Idle

\* evaluate is entered (engine.py:43)
BeginEvaluate(response, llm) ==
    /\ constructed
    /\ evalCall = Idle
    /\ Len(log) < MaxStepLog
    /\ evalCall' = [pc |-> "rules", response |-> response, llm |-> llm,
                    rule_calls |-> 0, llm_calls |-> 0, appends |-> 0,
                    log_before |-> Len(log)]
    /\ last' = [op |-> "evaluate", outcome |-> "running"]
    /\ UNCHANGED <<dirExists, fileExists, log, constructed, completed, tail, writers>>

\* rule_result = self.rules.evaluate(response)
StepRules ==
    /\ evalCall.pc = "rules"
    /\ evalCall' = [evalCall EXCEPT !.pc = "metrics", !.rule_calls = @ + 1]
    /\ UNCHANGED <<dirExists, fileExists, log, constructed, completed, last, tail, writers>>

\* a judge that asks the generator again when its output did not parse
StepMetricsRetrying ==
    /\ evalCall.pc = "metrics"
    /\ LET metrics == ComputeMetrics(evalCall.llm)
           asked == IF evalCall.llm.raises THEN 1
                    ELSE IF ParseJsonOutput(evalCall.llm.text).kind = "object"
                            /\ Has(ParseJsonOutput(evalCall.llm.text).val, "error")
                    THEN 2 ELSE 1
       IN  IF ~metrics.ok
           THEN EvaluateRaises(metrics.exc)
           ELSE /\ evalCall' = [evalCall EXCEPT !.pc = "merge", !.llm_calls = @ + asked]
                /\ UNCHANGED last
    /\ UNCHANGED <<dirExists, fileExists, log, constructed, completed, tail, writers>>

\* metric_result = self.metrics.compute_metrics(query, context, response):
\* one call of self.llm_func, then the parse and the weighted score
StepMetrics ==
    /\ evalCall.pc = "metrics"
    /\ LET metrics == ComputeMetrics(evalCall.llm)
       IN  IF ~metrics.ok
           THEN EvaluateRaises(metrics.exc)
           ELSE /\ evalCall' = [evalCall EXCEPT !.pc = "merge", !.llm_calls = @ + 1]
                /\ UNCHANGED last
    /\ UNCHANGED <<dirExists, fileExists, log, constructed, completed, tail, writers>>

\* the composite score, the flags and the packet (engine.py:51-74)
StepMerge ==
    /\ evalCall.pc = "merge"
    /\ LET core == EvaluateCore(evalCall.response, evalCall.llm)
       IN  IF ~core.ok
           THEN EvaluateRaises(core.exc)
           ELSE /\ evalCall' = [evalCall EXCEPT !.pc = "log"]
                /\ UNCHANGED last
    /\ UNCHANGED <<dirExists, fileExists, log, constructed, completed, tail, writers>>

\* self.feedback.log_event(query, response, metric_result, rule_result)
StepLog(write_fails) ==
    /\ evalCall.pc = "log"
    /\ LET core == EvaluateCore(evalCall.response, evalCall.llm)
       IN  IF write_fails
           THEN /\ EvaluateRaises("OSError")
                /\ UNCHANGED <<fileExists, log>>
           ELSE /\ fileExists' = TRUE
                /\ log' = AppendLine(log, Event(core.metrics, core.rule_results))
                /\ evalCall' = [evalCall EXCEPT !.pc = "return", !.appends = @ + 1]
                /\ UNCHANGED last
    /\ UNCHANGED <<dirExists, constructed, completed, tail, writers>>

\* return evaluation_packet
StepReturn ==
    /\ evalCall.pc = "return"
    /\ last' = [op |-> "evaluate", outcome |-> "returned",
                response |-> evalCall.response, llm |-> evalCall.llm,
                packet |-> EvaluateCore(evalCall.response, evalCall.llm).packet,
                rule_calls |-> evalCall.rule_calls,
                llm_calls |-> evalCall.llm_calls,
                appends |-> evalCall.appends,
                log_before |-> evalCall.log_before]
    /\ completed' = completed + 1
    /\ evalCall' = Idle
    /\ UNCHANGED <<dirExists, fileExists, log, constructed, tail, writers>>

BeginEvaluateStep ==
    \E response \in StepResponses, llm \in StepLlmOutcomes : BeginEvaluate(response, llm)

StepLogStep == \E write_fails \in BOOLEAN : StepLog(write_fails)

NextSteps ==
    \/ Construct
    \/ BeginEvaluateStep
    \/ StepRules
    \/ StepMetrics
    \/ StepMerge
    \/ StepLogStep
    \/ StepReturn

SpecSteps == Init /\ [][NextSteps]_vars

\* a FeedbackManager started on a log that earlier runs wrote
InitExisting ==
    /\ dirExists = TRUE
    /\ log \in ExistingLogs
    /\ fileExists = (log # <<>>)
    /\ constructed = FALSE
    /\ completed = Len(log)
    /\ last = [op |-> "none"]
    /\ tail = <<>>
    /\ writers = [w \in Writers |-> Idle]
    /\ evalCall = Idle

\* the reporter on an existing log: construction, reports
NextSignals == Construct \/ GenerateReport

SpecSignals == InitExisting /\ [][NextSignals]_vars

\* The rule checker alone: a response text is drawn, then evaluate() and
\* the two checks it is built from are applied to it.
MaxTextLen == 3

RuleTokens ==
    { Word,
      IdTok(TRUE, "001"), IdTok(FALSE, "002"),
      IdTok(TRUE, "999"), IdTok(FALSE, "999"),
      PriceTok(50), PriceTok(449), PriceTok(450),
      PriceUsdTok(1100), PriceUsdTok(1101), PriceTok(123456) }

RuleTexts == UNION {[1..k -> RuleTokens] : k \in 0..MaxTextLen}

InitRules ==
    /\ dirExists = FALSE
    /\ fileExists = FALSE
    /\ log = <<>>
    /\ constructed = FALSE
    /\ completed = 0
    /\ \E text \in RuleTexts : last = [op |-> "text", text |-> text]
    /\ tail = <<>>
    /\ writers = [w \in Writers |-> Idle]
    /\ evalCall = Idle

RuleCheck ==
    /\ last.op = "text"
    /\ last' = [op |-> "rule_evaluate",
                text |-> last.text,
                fake_ids |-> check_hallucinated_ids(last.text),
                bad_prices |-> check_price_sanity(last.text),
                result |-> RuleEvaluate(last.text)]
    /\ UNCHANGED <<dirExists, fileExists, log, constructed, completed>>
    /\ UNCHANGED <<tail, writers, evalCall>>

NextRules == RuleCheck

SpecRules == InitRules /\ [][NextRules]_vars

----------------------------------------------------------------------------
(* Properties                                                              *)

EvaluateReturned == last.op = "evaluate" /\ last.outcome = "returned"
ReportReturned == last.op = "generate_report" /\ last.outcome = "returned"

\* the packet has every field of a complete scorecard
CompletePacket(packet) ==
    {"overall_score", "status", "scores", "flags"} \subseteq DOMAIN packet

\* C1: when the text generator raises, evaluate still returns a complete
\* packet whose Judge verdict is degraded: error set, no overall_quality.
C1_GeneratorFailureIsDegraded ==
    (last.op = "evaluate" /\ last.llm.raises) =>
        /\ last.outcome = "returned"
        /\ CompletePacket(last.packet)
        /\ Has(last.packet.scores.components, "error")
        /\ ~Has(last.packet.scores.components, "overall_quality")

\* C2: when the append to the log fails, evaluate still returns the packet
\* it computed, the one it returns when the write succeeds.
C2_WriteFailureKeepsPacket ==
    (last.op = "evaluate" /\ last.write_fails
        /\ EvaluateCore(last.response, last.llm).ok) =>
        /\ last.outcome = "returned"
        /\ last.packet = EvaluateCore(last.response, last.llm).packet

\* the text, cleaned of its fences, is one JSON object
ParsesAsObject(text) ==
    LET parsed == Loads(Strip(StripFences(text)))
    IN  parsed.ok /\ parsed.val.kind = "object"

\* C3: for every generator text that does not parse as the expected object,
\* compute_metrics returns (does not raise) a verdict with error set,
\* raw_output equal to the text, the four component scores 0.0 and no
\* overall_quality; and in every verdict overall_quality is present exactly
\* when error is absent.
C3_UnparsableTextIsDegraded ==
    (last.op = "evaluate" /\ ~last.llm.raises) =>
        LET m == ComputeMetrics(last.llm)
        IN  /\ ~ParsesAsObject(last.llm.text) =>
                /\ m.ok
                /\ m.val.kind = "object"
                /\ Has(m.val.val, "error")
                /\ Get(m.val.val, "raw_output", <<>>) = last.llm.text
                /\ \A k \in {"relevance_score", "consistency_score",
                             "completeness_score", "clarity_score"} :
                       Has(m.val.val, k) /\ m.val.val[k] = 0
                /\ ~Has(m.val.val, "overall_quality")
            /\ (m.ok /\ m.val.kind = "object") =>
                (Has(m.val.val, "overall_quality") <=> ~Has(m.val.val, "error"))

\* C4 as claimed: status is PASS exactly when the reported (rounded)
\* overall_score is above 0.70.
C4_StatusFromReportedScore ==
    EvaluateReturned =>
        (last.packet.status = "PASS" <=> last.packet.overall_score > 70)

\* C4 as amended: status is PASS exactly when the unrounded final score
\* 0.4 * rule_adherence + 0.6 * llm_quality is above 0.7 and REVIEW_NEEDED
\* otherwise, and overall_score is that final score rounded to 2 decimals.
C4_StatusFromFinalScore ==
    EvaluateReturned =>
        LET final == last.packet.scores.rule_adherence * 4
                     + last.packet.scores.llm_quality * 6
        IN  /\ last.packet.status = (IF final > 700 THEN "PASS" ELSE "REVIEW_NEEDED")
            /\ last.packet.overall_score * 10 - 5 <= final
            /\ final <= last.packet.overall_score * 10 + 5

\* a packet whose final score is exactly 0.70 was returned
C4_Witness ==
    /\ EvaluateReturned
    /\ last.packet.scores.rule_adherence * 4 + last.packet.scores.llm_quality * 6 = 700
    /\ last.packet.overall_score = 70
    /\ last.packet.status = "REVIEW_NEEDED"

\* C5: every returned packet has overall_score in [0, 1] and a status of
\* PASS or REVIEW_NEEDED.
C5_ScoreAndStatusInRange ==
    EvaluateReturned =>
        /\ last.packet.overall_score \in 0..100
        /\ last.packet.status \in {"PASS", "REVIEW_NEEDED"}

\* C6: the packet's flags are the Rule Checker's flags for the response, in
\* their order, followed by the one LLM flag exactly when the Judge's
\* verdict carries the HIGH hallucination risk.
C6_FlagsAreRuleFlagsThenLlmFlag ==
    EvaluateReturned =>
        LET rule_flags == RuleEvaluate(last.response).rule_flags
            high == HallucinationRisk(last.packet.scores.components) = "HIGH"
        IN  /\ IsPrefix(rule_flags, last.packet.flags)
            /\ high => last.packet.flags = rule_flags \o <<LlmFlag>>
            /\ ~high => last.packet.flags = rule_flags
            /\ \A i \in 1..Len(rule_flags) : rule_flags[i] # LlmFlag

\* a packet with both rule flags and the LLM flag was returned
C6_Witness ==
    /\ EvaluateReturned
    /\ Len(RuleEvaluate(last.response).rule_flags) = 2
    /\ last.packet.flags = RuleEvaluate(last.response).rule_flags \o <<LlmFlag>>

\* mean consistency below which the report calls consistency low, hundredths
LowConsistency == 80

\* C7: a degraded verdict, or one with low consistency, is not classified
\* LOW hallucination risk in the returned packet.
C7_DegradedIsNotLowRisk ==
    EvaluateReturned =>
        LET verdict == last.packet.scores.components
        IN  (Has(verdict, "error")
             \/ Get(verdict, "consistency_score", 0) < LowConsistency) =>
                HallucinationRisk(verdict) # "LOW"

\* C8: a report after N >= 1 completed log_event calls, from an absent
\* log, is a summary with total_queries = N.
C8_TotalQueriesCountsLogEvents ==
    (ReportReturned /\ completed >= 1) =>
        /\ last.report.kind = "summary"
        /\ last.report.total_queries = completed

\* a report was generated after the longest run of log_event calls
C8_Witness ==
    /\ ReportReturned
    /\ completed >= 3
    /\ last.report.kind = "summary"
    /\ last.report.total_queries = completed

\* C9: every step keeps the log's content as a prefix of the new content; a
\* completed log_event adds exactly one line at the end; every other step,
\* the construction of a FeedbackManager included, leaves the log as it is.
C9_AppendOnly ==
    [][/\ IsPrefix(log, log')
       /\ (fileExists => fileExists')
       /\ IF completed' = completed + 1
          THEN Len(log') = Len(log) + 1
          ELSE log' = log /\ fileExists' = fileExists /\ completed' = completed]_vars

\* a FeedbackManager was constructed over a log that holds lines
C9_Witness == last.op = "init" /\ Len(log) >= 2 /\ fileExists

Degraded(line) == Has(LoadsLine(line).metrics, "error")

RECURSIVE ScoreSum(_, _)
ScoreSum(lines, key) ==
    IF lines = <<>> THEN 0
    ELSE (IF Degraded(lines[1]) THEN 0 ELSE Get(LoadsLine(lines[1]).metrics, key, 0))
         + ScoreSum(Tail(lines), key)

Judged == {i \in 1..Len(log) : ~Degraded(log[i])}
Flagged == {i \in 1..Len(log) : LoadsLine(log[i]).rules.rule_flags # <<>>}

\* the mean is sum / count over the judged lines, 0 when there is none
IsJudgedMean(avg, key) ==
    IF Judged = {} THEN avg.num = 0
    ELSE avg.num * Cardinality(Judged) = ScoreSum(log, key) * avg.den

\* C10: in a summary, a line whose verdict carries an error adds nothing to
\* the three means but counts in total_queries and in the denominator of
\* the hallucination rate, which is flagged lines / all lines as a
\* percentage with one decimal: 2 of 10 is "20.0%", none is "0.0%".
C10_ReportAggregates ==
    (ReportReturned /\ last.report.kind = "summary") =>
        /\ last.report.total_queries = Len(log)
        /\ IsJudgedMean(last.report.avg_relevance, "relevance_score")
        /\ IsJudgedMean(last.report.avg_consistency, "consistency_score")
        /\ IsJudgedMean(last.report.avg_clarity, "clarity_score")
        /\ \E tenths \in {(1000 * Cardinality(Flagged)) \div Len(log),
                          (1000 * Cardinality(Flagged)) \div Len(log) + 1} :
              /\ 2 * Len(log) * tenths - Len(log) <= 2000 * Cardinality(Flagged)
              /\ 2000 * Cardinality(Flagged) <= 2 * Len(log) * tenths + Len(log)
              /\ last.report.hallucination_rate =
                    ToString(tenths \div 10) \o "." \o ToString(tenths % 10) \o "%"
        /\ (Cardinality(Flagged) = 2 /\ Len(log) = 10) =>
                last.report.hallucination_rate = "20.0%"
        /\ Cardinality(Flagged) = 0 => last.report.hallucination_rate = "0.0%"

\* a report of a log of 10 lines, 2 of them flagged, some degraded and some
\* judged
C10_Witness ==
    /\ ReportReturned
    /\ Len(log) = 10
    /\ Cardinality(Flagged) = 2
    /\ Judged # {}
    /\ Cardinality(Judged) < 10
    /\ last.report.kind = "summary"
    /\ last.report.hallucination_rate = "20.0%"

\* C11: generate_report is a function of the log alone and reads only: a
\* call leaves the log as it is, and a call that follows another call with
\* no operation in between returns the same result.
C11_ReportIsPure ==
    [][last'.op = "generate_report" =>
          /\ log' = log
          /\ fileExists' = fileExists
          /\ (last.op = "generate_report" => last'.report = last.report)]_vars

\* a second report of a log that holds lines, right after the first
C11_Witness ==
    /\ ReportReturned
    /\ last.consecutive = 2
    /\ last.report.kind = "summary"
    /\ Len(log) >= 2

\* C12: generate_report returns a no-data sentinel exactly when the log
\* holds no line and a summary otherwise, and the sentinel of a store that
\* was initialized (a FeedbackManager was constructed) and holds no line is
\* not the sentinel of a store that was never initialized (no log file).
C12_SentinelsTellStoresApart ==
    ReportReturned =>
        /\ (last.report.kind = "sentinel" <=> Len(log) = 0)
        /\ (constructed /\ Len(log) = 0) =>
               last.report # GenerateReportOf(FALSE, <<>>)

\* the recommendation fires on the summary's own means and on the rate of
\* flagged lines
Fires(signal) ==
    CASE signal = RelevanceSignal ->
            last.report.avg_relevance.num < 70 * last.report.avg_relevance.den
      [] signal = ConsistencySignal ->
            last.report.avg_consistency.num < 80 * last.report.avg_consistency.den
      [] signal = ClaritySignal ->
            last.report.avg_clarity.num < 60 * last.report.avg_clarity.den
      [] signal = HallucinationSignal ->
            Cardinality(Flagged) * 10 > Len(log)

\* C13: in a summary each of the four recommendations is present exactly
\* when its own strict threshold holds (relevance < 0.7, consistency < 0.8,
\* clarity < 0.6, hallucination rate > 10%), whatever the others do, and
\* those present are in that order.
C13_RecommendationsByThreshold ==
    (ReportReturned /\ last.report.kind = "summary") =>
        last.report.tuning_recommendations =
            SelectSeq(<<RelevanceSignal, ConsistencySignal, ClaritySignal,
                        HallucinationSignal>>, Fires)

\* a summary of 10 lines, 1 flagged, every mean exactly at its threshold:
\* nothing is recommended
C13_Witness ==
    /\ ReportReturned
    /\ last.report.kind = "summary"
    /\ Len(log) = 10
    /\ Cardinality(Flagged) = 1
    /\ last.report.avg_relevance.num = 70 * last.report.avg_relevance.den
    /\ last.report.avg_consistency.num = 80 * last.report.avg_consistency.den
    /\ last.report.avg_clarity.num = 60 * last.report.avg_clarity.den
    /\ last.report.tuning_recommendations = <<>>


----------------------------------------------------------------------------
RuleChecked == last.op = "rule_evaluate"

\* C14: the rule score starts at 100, loses 50 once when the identifier
\* check finds anything and 20 once when the price check finds anything,
\* and is never below 0; there is one flag per check that found something,
\* the identifier flag before the price flag; the score is 100 exactly when
\* there are no flags.
C14_RuleScoreAndFlags ==
    RuleChecked =>
        LET found_ids == last.fake_ids # <<>>
            found_prices == last.bad_prices # <<>>
            score == last.result.rule_score
            flags == last.result.rule_flags
        IN  /\ score = 100 - (IF found_ids THEN 50 ELSE 0) - (IF found_prices THEN 20 ELSE 0)
            /\ score >= 0
            /\ Len(flags) = (IF found_ids THEN 1 ELSE 0) + (IF found_prices THEN 1 ELSE 0)
            /\ found_ids => flags[1] = IdFlag(last.fake_ids)
            /\ found_prices => flags[Len(flags)] = PriceFlag(last.bad_prices)
            /\ (score = 100 <=> flags = <<>>)

\* both checks find something, several items each: the penalties apply once
C14_Witness ==
    /\ RuleChecked
    /\ Len(last.fake_ids) = 1 /\ Len(last.bad_prices) = 2
    /\ last.result.rule_score = 30
    /\ Len(last.result.rule_flags) = 2

\* the identifiers the pattern finds in a text, as written
WrittenIds(text) ==
    {[upper |-> text[i].upper, digits |-> text[i].digits] :
        i \in {j \in 1..Len(text) : text[j].tok = "id"}}

\* the digits of the catalog's identifiers
CatalogDigits == {id.digits : id \in CatalogIds}

\* C15: the identifier check returns exactly the identifiers found in the
\* text that are not in the catalog, compared without regard to letter case
\* and reported in upper case, each one once however often it occurs.
C15_HallucinatedIdsCaseInsensitiveOnce ==
    RuleChecked =>
        /\ Elements(last.fake_ids) =
               {[upper |-> TRUE, digits |-> m.digits] :
                    m \in {w \in WrittenIds(last.text) : w.digits \notin CatalogDigits}}
        /\ Cardinality(Elements(last.fake_ids)) = Len(last.fake_ids)

\* a catalog identifier written in lower case is not reported, and an
\* unknown one written in both cases is reported once
C15_Witness ==
    /\ RuleChecked
    /\ last.text = <<IdTok(FALSE, "002"), IdTok(FALSE, "999"), IdTok(TRUE, "999")>>
    /\ last.fake_ids = <<[upper |-> TRUE, digits |-> "999"]>>

C17_RecordsCompleteOrAbsent ==
    /\ \A i \in 1..Len(log) : IsRecord(log[i])
    /\ (\A w \in Writers : writers[w] = Idle) => Len(log) = completed
    /\ last.op = "generate_report" => last.outcome = "returned"

\* C18: the rule verdict evaluate passes to the log carries the flags of
\* the rule checker only, also when the LLM flag was added to the packet's
\* flags; an evaluation in which no rule check triggered is not counted in
\* the hallucination rate.
C18_LoggedRuleFlagsAreRuleCheckerFlags ==
    EvaluateReturned =>
        LET line == log[Len(log)]
            rule_flags == RuleEvaluate(last.response).rule_flags
        IN  /\ LoadsLine(line).rules.rule_flags = rule_flags
            /\ rule_flags = <<>> => HallucinationCount(<<line>>) = 0

\* C19: an evaluate call that returns a packet has called the rule checker
\* once and the generator once (also when its output did not parse), has
\* both results before the packet is built, and has appended one log entry
\* before it returns; after k returned calls on a fresh store the log holds
\* k entries.
C19_OnceEachThenOneAppend ==
    /\ evalCall.pc \in {"log", "return"} =>
           evalCall.rule_calls = 1 /\ evalCall.llm_calls = 1
    /\ evalCall.pc = "return" =>
           evalCall.appends = 1 /\ Len(log) = evalCall.log_before + 1
    /\ EvaluateReturned =>
           /\ last.rule_calls = 1 /\ last.llm_calls = 1 /\ last.appends = 1
           /\ Len(log) = last.log_before + 1
    /\ evalCall = Idle => Len(log) = completed

\* the second returned call, on a generator output that did not parse
C19_Witness ==
    /\ EvaluateReturned
    /\ Has(last.packet.scores.components, "error")
    /\ completed = 2 /\ Len(log) = 2

====
